---- MODULE Spec2Model ----
(***************************************************************************)
(* Model of ap_swarm_launcher/sitl.py: SimulatedDroneSwarm (the swarm      *)
(* orchestrator), its async context manager use(), _request_stop() and     *)
(* _start_simulated_drone(), and the SimulatedDroneSwarmContext handle.    *)
(*                                                                         *)
(* One swarm instance is modelled.  Every call of use() is an "activation" *)
(* with its own nursery, working directory and process runner; every call  *)
(* of add_drone() is a "call" that advances from one await to the next.    *)
(* The caller of add_drone runs either inside the body of an activation    *)
(* (and is then covered by that activation's cancel scope) or in a task    *)
(* outside of every activation that merely holds a session handle.         *)
(*                                                                         *)
(* Two specifications share the actions.  Spec lets use() be called at any *)
(* time, also while an earlier activation is still running, on a swarm     *)
(* built with one fixed configuration.  SpecInTurn draws the configuration *)
(* from all combinations of Configurations and calls use() only when no    *)
(* other activation is in progress.                                        *)
(***************************************************************************)
EXTENDS Integers, Sequences, FiniteSets, TLC

\* Number of use() calls made on the swarm instance.
MaxActivations == 2
\* Number of add_drone() calls made through session handles.
MaxCalls == 2

Activations == 1..MaxActivations
Calls == 1..MaxCalls
Indices == 1..MaxCalls

VARIABLES
    config,           \* the constructor's other arguments as stored:
                      \* _tcp_base_port (0 for None), _multicast_address
                      \* ("" for None), _params, _executable
    dir_given,        \* self._dir is not None (set by the constructor)
    nursery,          \* self._nursery: 0 (None) or the activation owning it
    runner,           \* self._runner: 0 (None) or the activation owning it
    swarm_dir,        \* self._swarm_dir: a path, kind "none" for None
    index_generator,  \* next value of self._index_generator
    use,              \* per activation: position inside use(), whether it
                      \* yielded a handle, whether use() was called after an
                      \* earlier activation had ended, the context managers
                      \* entered and exited, in order
    cancelled,        \* per activation: its nursery's cancel scope is cancelled
    sup,              \* per activation: its AsyncProcessRunner
    disk,             \* state of the root directories on disk
    drones,           \* per drone index: its directory tree on disk and the
                      \* lines of its parameter file
    call              \* per add_drone call: position, locals and outcome

vars == <<config, dir_given, nursery, runner, swarm_dir, index_generator, use,
          cancelled, sup, disk, drones, call>>

----------------------------------------------------------------------------
\* Paths of root directories.

NonePath == [kind |-> "none", act |-> 0]
GivenPath == [kind |-> "given", act |-> 0]
TmpPath(a) == [kind |-> "tmp", act |-> a]
Roots == {GivenPath} \cup {TmpPath(a) : a \in Activations}

\* maybe_temporary_working_directory(self._dir): the directory entered by
\* activation a is the caller's directory when one was given, otherwise a
\* fresh temporary directory.
WorkingDirectory(given, a) == IF given THEN GivenPath ELSE TmpPath(a)

\* The directory is removed on exit only when the orchestrator created it.
RemovedOnExit(p) == p.kind = "tmp"

\* The kinds of entries of the params argument: a (name, value) tuple, a
\* Path or a string naming a file, a string starting with "embedded://",
\* and None.
SourceKinds == {"pair", "file", "embedded", "none"}

\* The params lists the swarm is built with.
ParamLists == {<<>>, <<"embedded", "pair">>, <<"none", "file">>}

\* The constructor's arguments as it stores them.  tcp_base_port: None and
\* 0 are both stored as None (0 here); multicast_address: None and the
\* empty string both read as false ("" here).
Configurations ==
    [tcp_base_port : {0, 5760},
     multicast_address : {"", "239.255.67.77:14555"},
     params : ParamLists,
     executable : {"ArduCopter", "-C"}]

\* One embedded parameter file and one name-value pair, a multicast address
\* and a TCP base port.
FullConfiguration ==
    [tcp_base_port |-> 5760,
     multicast_address |-> "239.255.67.77:14555",
     params |-> <<"embedded", "pair">>,
     executable |-> "ArduCopter"]

\* The parameter file of a drone: whether the path exists and holds a
\* partial or a complete file, and the lines it holds.
NoDrone == [root |-> NonePath, dir |-> FALSE, fs |-> FALSE, param |-> "absent",
            content |-> <<>>]
NoLaunch == [submitted |-> FALSE, console |-> FALSE, args |-> <<>>, name |-> <<>>,
             stream_stdout |-> FALSE, use_stdin |-> FALSE]
\* A call of add_drone(): its position, the activation whose cancel scope
\* covers it, its index and TCP port, its outcome; the position in
\* self._params, whether it holds an embedded resource, the state of its
\* file object and what it wrote through it, whether it has created the
\* drone's two directories, and what it passed to the runner.
IdleCall == [pc |-> "idle", scope |-> 0, index |-> 0, result |-> "none",
             tcp_port |-> 0, k |-> 0, held |-> FALSE, fp |-> "unopened",
             written |-> <<>>, made |-> {}, launch |-> NoLaunch]
IdleUse == [pc |-> "idle", handle |-> FALSE, reuse |-> FALSE, entered |-> <<>>,
            exited |-> <<>>]
NoSup == [state |-> "none", stop_requested |-> FALSE, procs |-> {}]

\* The swarm right after construction: no scope, no runner, no working
\* directory, the index generator at 1.
Constructed ==
    /\ dir_given \in BOOLEAN
    /\ nursery = 0
    /\ runner = 0
    /\ swarm_dir = NonePath
    /\ index_generator = 1
    /\ use = [a \in Activations |-> IdleUse]
    /\ cancelled = [a \in Activations |-> FALSE]
    /\ sup = [a \in Activations |-> NoSup]
    /\ disk = [p \in Roots |-> IF p = GivenPath /\ dir_given THEN "present"
                                                              ELSE "absent"]
    /\ call = [c \in Calls |-> IdleCall]

\* The working directory holds no drone directories yet.
Fresh == drones = [i \in Indices |-> NoDrone]

\* The caller's directory holds the tree an earlier swarm left there: the
\* directories of its drones and their parameter files.
LeftOver ==
    /\ dir_given
    /\ drones = [i \in Indices |->
                   [root |-> GivenPath, dir |-> TRUE, fs |-> TRUE,
                    param |-> "complete",
                    content |-> <<[line |-> "SYSID_THISMAV", n |-> i]>>]]

Init == config = FullConfiguration /\ Constructed /\ (Fresh \/ LeftOver)

InitAnyConfiguration == config \in Configurations /\ Constructed /\ Fresh

----------------------------------------------------------------------------
\* SimulatedDroneSwarm.use()

\* Variant of Contexts: the process runner entered before the working
\* directory.
ContextsRunnerOutside == <<"nursery", "runner", "dir">>

\* The context managers use() enters, outermost first; they are exited in
\* the reverse order.
Contexts == <<"nursery", "dir", "runner">>

Reverse(s) == [k \in 1..Len(s) |-> s[Len(s) + 1 - k]]

\* Position of context manager cm in a sequence of them, 0 when absent.
Pos(s, cm) == IF \E k \in 1..Len(s) : s[k] = cm
              THEN CHOOSE k \in 1..Len(s) : s[k] = cm
              ELSE 0

\* Everything below root p disappears with it.
Wipe(d, p) == [i \in Indices |-> IF d[i].root = p
                                   THEN [d[i] EXCEPT !.dir = FALSE, !.fs = FALSE,
                                                     !.param = "absent",
                                                     !.content = <<>>]
                                   ELSE d[i]]

\* State after activation a has entered context manager cm and bound its
\* result to the swarm's field, as a record of the variables it touches.
Entered(st, a, cm) ==
    LET root == WorkingDirectory(dir_given, a)
    IN CASE cm = "nursery" -> [st EXCEPT !.nursery = a]
         [] cm = "dir" -> [st EXCEPT !.swarm_dir = root,
                                     !.disk = [@ EXCEPT ![root] = "present"]]
         [] cm = "runner" -> [st EXCEPT !.runner = a,
                                        !.sup = [@ EXCEPT ![a].state = "running"]]

\* State after activation a has left context manager cm.
Exited(st, a, cm) ==
    LET root == WorkingDirectory(dir_given, a)
    IN CASE cm = "nursery" -> st
         [] cm = "dir" -> IF RemovedOnExit(root)
                          THEN [st EXCEPT !.disk = [@ EXCEPT ![root] = "removed"],
                                          !.drones = Wipe(@, root)]
                          ELSE st
         [] cm = "runner" -> [st EXCEPT !.sup = [@ EXCEPT ![a].state = "released"]]

RECURSIVE EnterAll(_, _, _)
EnterAll(st, a, cms) ==
    IF cms = <<>> THEN st
    ELSE EnterAll([Entered(st, a, Head(cms)) EXCEPT !.log = Append(@, Head(cms))],
                  a, Tail(cms))

RECURSIVE ExitAll(_, _, _)
ExitAll(st, a, cms) ==
    IF cms = <<>> THEN st
    ELSE ExitAll([Exited(st, a, Head(cms)) EXCEPT !.log = Append(@, Head(cms))],
                 a, Tail(cms))

\* The variables the context managers touch, with the activation's log of
\* context managers entered (or exited) so far.
Touched(a, log) == [nursery |-> nursery, swarm_dir |-> swarm_dir, runner |-> runner,
                    disk |-> disk, sup |-> sup, drones |-> drones, log |-> log]

Commit(st) ==
    /\ nursery' = st.nursery
    /\ swarm_dir' = st.swarm_dir
    /\ runner' = st.runner
    /\ disk' = st.disk
    /\ sup' = st.sup
    /\ drones' = st.drones

\* The context managers entered before the process runner, whose
\* __aenter__ is awaited, and the ones from the runner on.
RunnerAt == Pos(Contexts, "runner")
BeforeRunner == SubSeq(Contexts, 1, RunnerAt - 1)
FromRunner == SubSeq(Contexts, RunnerAt, Len(Contexts))

\* The context managers of cms up to, not including, the working directory
\* when its creation fails inside cms.
UpToDir(cms) == SubSeq(cms, 1, Pos(cms, "dir") - 1)

\* A task calls use(): runs up to the await of the runner's __aenter__.
\* With dir_ok false the working directory cannot be created and the error
\* unwinds the context managers entered so far.
UseCall(a, dir_ok) ==
    /\ use[a].pc = "idle"
    /\ IF a = 1 THEN TRUE ELSE use[a - 1].pc # "idle"
    /\ LET again == \E b \in Activations : use[b].pc = "done" /\ use[b].handle
       IN IF dir_ok \/ Pos(BeforeRunner, "dir") = 0
          THEN LET st == EnterAll(Touched(a, <<>>), a, BeforeRunner)
               IN /\ Commit(st)
                  /\ use' = [use EXCEPT ![a].pc = "entering", ![a].reuse = again,
                                        ![a].entered = st.log]
          ELSE LET st == EnterAll(Touched(a, <<>>), a, UpToDir(BeforeRunner))
               IN /\ Commit(st)
                  /\ use' = [use EXCEPT ![a].pc = "failing", ![a].reuse = again,
                                        ![a].entered = st.log]
    /\ UNCHANGED <<config, dir_given, index_generator, cancelled, call>>

\* The runner's __aenter__ returns; the remaining context managers are
\* entered and the session handle is yielded to the caller's block.
UseYield(a, dir_ok) ==
    /\ use[a].pc = "entering"
    /\ IF dir_ok \/ Pos(FromRunner, "dir") = 0
       THEN LET st == EnterAll(Touched(a, use[a].entered), a, FromRunner)
            IN /\ Commit(st)
               /\ use' = [use EXCEPT ![a].pc = "body", ![a].entered = st.log,
                                     ![a].handle = TRUE]
       ELSE LET st == EnterAll(Touched(a, use[a].entered), a, UpToDir(FromRunner))
            IN /\ Commit(st)
               /\ use' = [use EXCEPT ![a].pc = "failing", ![a].entered = st.log]
    /\ UNCHANGED <<config, dir_given, index_generator, cancelled, call>>

InFlight(c) == call[c].pc \notin {"idle", "done"}

\* Variant of Unwind: the context managers are exited in the order they
\* were entered.
UnwindInEntryOrder(a) == use[a].entered

\* The order in which activation a exits its context managers: nested
\* with-blocks are left innermost first.
Unwind(a) == Reverse(use[a].entered)

\* Variant of Cleared: the finally clause does not reset self._runner.
ClearedButRunner == [nursery |-> 0, runner |-> runner, swarm_dir |-> NonePath]

\* The three fields as the finally clause of use() leaves them.
Cleared == [nursery |-> 0, runner |-> 0, swarm_dir |-> NonePath]

\* The caller's block ends (normally, with an error, or interrupted by the
\* cancellation of the scope); the finally clause clears the three fields
\* and the runner's __aexit__ is awaited.
UseFinally(a) ==
    /\ use[a].pc = "body"
    /\ \A c \in Calls : call[c].scope = a => ~InFlight(c)
    /\ use' = [use EXCEPT ![a].pc = "exiting"]
    /\ nursery' = Cleared.nursery
    /\ runner' = Cleared.runner
    /\ swarm_dir' = Cleared.swarm_dir
    /\ UNCHANGED <<config, dir_given, index_generator, cancelled, sup, disk, drones, call>>

\* The awaited __aexit__ returns: the context managers entered are exited,
\* innermost first, and use() returns to (or raises into) its caller.
UseExit(a) ==
    /\ use[a].pc \in {"exiting", "failing"}
    /\ LET st == ExitAll(Touched(a, <<>>), a, Unwind(a))
       IN /\ Commit(st)
          /\ use' = [use EXCEPT ![a].pc = "done", ![a].exited = st.log]
    /\ UNCHANGED <<config, dir_given, index_generator, cancelled, call>>

----------------------------------------------------------------------------
\* SimulatedDroneSwarm._request_stop(), reached through
\* SimulatedDroneSwarmContext.request_stop()

HandleExists == \E a \in Activations : use[a].handle

\* Variant of Guarded: the method is invoked without the test.
Unguarded(field) == {field}

\* The objects a method is invoked on under "if field: field.method()":
\* none when the field is None.
Guarded(field) == IF field # 0 THEN {field} ELSE {}

\* _request_stop() on the given fields, runner objects and cancel scopes:
\* invoking a method on None (0) raises.
StopEffect(r, n, s, cs) ==
    LET rs == Guarded(r)
        ns == Guarded(n)
    IN IF 0 \in rs \cup ns
       THEN [raised |-> TRUE, sup |-> s, cancelled |-> cs]
       ELSE [raised |-> FALSE,
             sup |-> [a \in Activations |->
                        IF a \in rs THEN [s[a] EXCEPT !.stop_requested = TRUE]
                                    ELSE s[a]],
             cancelled |-> [a \in Activations |-> cs[a] \/ a \in ns]]

\* The methods _request_stop() invokes, in the order of its statements:
\* request_stop() on the runner, then cancel() on the nursery's scope.
StopCalls(r, n) ==
    [k \in 1..Cardinality(Guarded(r)) |-> [op |-> "request_stop", on |-> r]]
    \o [k \in 1..Cardinality(Guarded(n)) |-> [op |-> "cancel", on |-> n]]

RequestStop ==
    /\ HandleExists
    /\ LET e == StopEffect(runner, nursery, sup, cancelled)
       IN /\ sup' = e.sup
          /\ cancelled' = e.cancelled
    /\ UNCHANGED <<config, dir_given, nursery, runner, swarm_dir, index_generator, use,
                   disk, drones, call>>

----------------------------------------------------------------------------
\* SimulatedDroneSwarmContext.add_drone() and
\* SimulatedDroneSwarm._start_simulated_drone()

\* Variant of AssertionsPass: the assertions are not evaluated.
AssertionsSkipped(r, d) == TRUE

\* The two assertions at the top of _start_simulated_drone().
AssertionsPass(r, d) == r # 0 /\ d # NonePath

\* Variant of NextIndex: the generator does not advance.
NextIndexStuck(g) == [value |-> g, gen |-> g]

\* next(self._index_generator) on a count(): the value handed out and the
\* generator afterwards.
NextIndex(g) == [value |-> g, gen |-> g + 1]

\* Variant of TcpPort: the port is counted from the base port plus one.
TcpPortOffByOne(base, index) == IF base # 0 THEN base + index ELSE 0

\* tcp_port = self._tcp_base_port + index - 1 if self._tcp_base_port else
\* None (0 here).
TcpPort(base, index) == IF base # 0 THEN base + index - 1 ELSE 0

\* str() of a non-negative integer, as its decimal digits.
RECURSIVE Str(_)
Str(n) == IF n < 10 THEN <<n>> ELSE Append(Str(n \div 10), n % 10)

\* "{0:03}".format(index): zero-padded to at least three digits.
RECURSIVE ZeroPad(_, _)
ZeroPad(d, width) == IF Len(d) >= width THEN d ELSE ZeroPad(<<0>> \o d, width)
DroneId(index) == ZeroPad(Str(index), 3)

\* The cancel scope covering the caller of call c has been cancelled: the
\* next checkpoint of the call raises Cancelled.
ScopeCancelled(c) == call[c].scope # 0 /\ cancelled[call[c].scope]

\* Variant of Released: the resource is released after the copy, on the
\* path without an exception only.
ReleasedUnlessRaised(held, raised) == held /\ raised

\* "with param_source as path:" is left, normally or by an exception: the
\* embedded resource is held no longer.
Released(held, raised) == FALSE

\* The call returns or raises: an open "with" and "async with" are left,
\* its locals are gone, its task is no longer of interest.
Finish(c, res) ==
    [call EXCEPT ![c].pc = "done", ![c].result = res, ![c].scope = 0,
                 ![c].held = Released(@, res # "ok"),
                 ![c].fp = IF @ = "open" THEN "closed" ELSE @,
                 ![c].k = 0, ![c].written = <<>>, ![c].made = {}]
Advance(c, pc) == [call EXCEPT ![c].pc = pc]

\* add_drone() is called from a task running in the body of activation
\* scope, or (scope = 0) from a task outside of every activation that holds
\* a session handle.  Runs up to the first await: the assertions, the
\* allocation of the index and the derivation of the drone's paths and
\* port.
StartSimulatedDrone(c, scope) ==
    /\ call[c].pc = "idle"
    /\ IF c = 1 THEN TRUE ELSE call[c - 1].pc # "idle"
    /\ IF scope = 0 THEN HandleExists ELSE use[scope].pc = "body"
    /\ index_generator \in Indices
    /\ LET nxt == NextIndex(index_generator)
       IN IF ~AssertionsPass(runner, swarm_dir)
          THEN /\ call' = Finish(c, "AssertionError")
               /\ UNCHANGED <<index_generator, drones>>
          ELSE /\ index_generator' = nxt.gen
               /\ IF swarm_dir = NonePath
                  THEN \* None / "drones" raises
                       /\ call' = [Finish(c, "TypeError") EXCEPT ![c].index = nxt.value]
                       /\ UNCHANGED drones
                  ELSE /\ call' = [call EXCEPT
                                     ![c].pc = "mkdir", ![c].scope = scope,
                                     ![c].index = nxt.value,
                                     ![c].tcp_port = TcpPort(config.tcp_base_port,
                                                             nxt.value)]
                       /\ drones' = [drones EXCEPT ![nxt.value].root = swarm_dir]
    /\ UNCHANGED <<config, dir_given, nursery, runner, swarm_dir, use, cancelled, sup,
                   disk>>

\* A checkpoint of the call finds its scope cancelled.
DroneCancelled(c) ==
    /\ InFlight(c)
    /\ ScopeCancelled(c)
    /\ call' = Finish(c, "Cancelled")
    /\ UNCHANGED <<config, dir_given, nursery, runner, swarm_dir, index_generator, use,
                   cancelled, sup, disk, drones>>

\* Variant of Mkdir: exist_ok is left at its default, False.
MkdirExclusive(exists) == [raised |-> exists, exists |-> TRUE]

\* mkdir(parents=True, exist_ok=True) on a path that is or is not a
\* directory already: whether it raises, and whether the directory exists
\* afterwards.
Mkdir(exists) == [raised |-> FALSE, exists |-> TRUE]

\* await AsyncPath(drone_dir).mkdir(parents=True, exist_ok=True)
DroneMkdir(c) ==
    /\ call[c].pc = "mkdir"
    /\ ~ScopeCancelled(c)
    /\ LET i == call[c].index
           m == Mkdir(drones[i].dir)
       IN IF m.raised
          THEN /\ call' = Finish(c, "FileExistsError")
               /\ UNCHANGED <<disk, drones>>
          ELSE /\ disk' = [disk EXCEPT ![drones[i].root] = "present"]
               /\ drones' = [drones EXCEPT ![i].dir = m.exists]
               /\ call' = [Advance(c, "open") EXCEPT ![c].made = @ \cup {"dir"}]
    /\ UNCHANGED <<config, dir_given, nursery, runner, swarm_dir, index_generator, use,
                   cancelled, sup>>

\* The first entry of self._params at or after position k that is not
\* None, Len + 1 when there is none: a None entry passes every branch of
\* the loop body without an await.
RECURSIVE NextSource(_, _)
NextSource(ps, k) ==
    IF k > Len(ps) THEN Len(ps) + 1
    ELSE IF ps[k] # "none" THEN k
    ELSE NextSource(ps, k + 1)

\* Variant of AtSource: when the entries are used up the call goes on to
\* what follows the file; the computed fields are not written and the file
\* is not closed.
AtSourceSkipsComputed(cl, c, k) ==
    IF k <= Len(config.params)
    THEN [cl EXCEPT ![c].pc = "sources", ![c].k = k,
                    ![c].held = config.params[k] = "embedded"]
    ELSE [cl EXCEPT ![c].pc = "mkfs", ![c].k = k]

\* The call reaches the await of entry k of self._params, entering the
\* "with" of an embedded resource on the way, or the await of the first
\* computed field when the entries are used up.
AtSource(cl, c, k) ==
    IF k <= Len(config.params)
    THEN [cl EXCEPT ![c].pc = "sources", ![c].k = k,
                    ![c].held = config.params[k] = "embedded"]
    ELSE [cl EXCEPT ![c].pc = "computed", ![c].k = k]

\* What a write through the file object does to the file at the drone's
\* path: nothing when the path has been removed meanwhile.
OnDisk(d, i, lines, state) ==
    IF d[i].param = "absent" THEN d
    ELSE [d EXCEPT ![i].content = @ \o lines, ![i].param = state]

\* await open_file(own_param_file, "wb+"): creates or truncates the file;
\* fails when the drone's directory is gone.  The loop over self._params
\* is entered.
DroneOpenFile(c) ==
    /\ call[c].pc = "open"
    /\ ~ScopeCancelled(c)
    /\ LET i == call[c].index
       IN IF drones[i].dir
          THEN /\ drones' = [drones EXCEPT ![i].param = "partial",
                                           ![i].content = <<>>]
               /\ call' = AtSource([call EXCEPT ![c].fp = "open"], c,
                                   NextSource(config.params, 1))
          ELSE /\ call' = Finish(c, "OSError")
               /\ UNCHANGED drones
    /\ UNCHANGED <<config, dir_given, nursery, runner, swarm_dir, index_generator, use,
                   cancelled, sup, disk>>

\* Variant of SourcesOutcome: the error of an unreadable source is noted but
\* does not leave the loop.
SourcesErrorSwallowed(readable) ==
    [pc |-> "computed", result |-> IF readable THEN "none" ELSE "ConfigError"]

\* Where an entry of self._params leaves the call: on to what follows the
\* entry, or, when the source cannot be read, out of add_drone() with the
\* error.
SourcesOutcome(readable) ==
    IF readable THEN [pc |-> "computed", result |-> "none"]
                ELSE [pc |-> "done", result |-> "ConfigError"]

\* The lines entry k contributes to the file: the rendered pair, or the
\* content of the file or resource and a newline.
SourceLines(k) == <<[line |-> "source", n |-> k]>>

\* One entry of self._params is copied or written to the file and the
\* next entry is reached.
DroneWriteSources(c, readable) ==
    /\ call[c].pc = "sources"
    /\ ~ScopeCancelled(c)
    /\ LET o == SourcesOutcome(readable)
           i == call[c].index
           k == call[c].k
       IN IF o.pc = "done"
          THEN /\ call' = Finish(c, o.result)
               /\ UNCHANGED drones
          ELSE /\ call' = AtSource([call EXCEPT
                                      ![c].result = o.result,
                                      ![c].written = @ \o SourceLines(k),
                                      ![c].held = Released(@, FALSE)],
                                   c, NextSource(config.params, k + 1))
               /\ drones' = OnDisk(drones, i, SourceLines(k), "partial")
    /\ UNCHANGED <<config, dir_given, nursery, runner, swarm_dir, index_generator, use,
                   cancelled, sup, disk>>

\* Variant of ComputedFields: the TCP serial line is written before the
\* multicast lines.
ComputedFieldsTcpFirst(index, multicast_address, tcp_port) ==
    <<[line |-> "SYSID_THISMAV", n |-> index]>>
    \o (IF tcp_port # 0 THEN <<[line |-> "SERIAL2_PROTOCOL", n |-> 2]>> ELSE <<>>)
    \o (IF multicast_address # ""
        THEN <<[line |-> "SERIAL1_PROTOCOL", n |-> 2],
               [line |-> "SERIAL1_OPTIONS", n |-> 1024]>>
        ELSE <<>>)

\* The computed fields, in the order they are written.
ComputedFields(index, multicast_address, tcp_port) ==
    <<[line |-> "SYSID_THISMAV", n |-> index]>>
    \o (IF multicast_address # ""
        THEN <<[line |-> "SERIAL1_PROTOCOL", n |-> 2],
               [line |-> "SERIAL1_OPTIONS", n |-> 1024]>>
        ELSE <<>>)
    \o (IF tcp_port # 0 THEN <<[line |-> "SERIAL2_PROTOCOL", n |-> 2]>> ELSE <<>>)

\* The computed fields are written and the file is closed.
DroneWriteComputed(c) ==
    /\ call[c].pc = "computed"
    /\ ~ScopeCancelled(c)
    /\ LET i == call[c].index
           lines == ComputedFields(i, config.multicast_address, call[c].tcp_port)
       IN /\ drones' = OnDisk(drones, i, lines, "complete")
          /\ call' = [Advance(c, "mkfs") EXCEPT ![c].written = @ \o lines,
                                                ![c].fp = "closed"]
    /\ UNCHANGED <<config, dir_given, nursery, runner, swarm_dir, index_generator, use,
                   cancelled, sup, disk>>

\* await AsyncPath(drone_fs_dir).mkdir(parents=True, exist_ok=True)
DroneMkFsDir(c) ==
    /\ call[c].pc = "mkfs"
    /\ ~ScopeCancelled(c)
    /\ LET i == call[c].index
           m == Mkdir(drones[i].fs)
       IN IF m.raised
          THEN /\ call' = Finish(c, "FileExistsError")
               /\ UNCHANGED <<disk, drones>>
          ELSE /\ disk' = [disk EXCEPT ![drones[i].root] = "present"]
               /\ drones' = [drones EXCEPT ![i].dir = TRUE, ![i].fs = m.exists]
               /\ call' = [Advance(c, "start") EXCEPT ![c].made = @ \cup {"fs"}]
    /\ UNCHANGED <<config, dir_given, nursery, runner, swarm_dir, index_generator, use,
                   cancelled, sup>>

\* An element of the argument list: a literal text, followed by a
\* configured text or by the digits of a number.
Arg(s, v, n) == [s |-> s, v |-> v, n |-> n]
Lit(s) == Arg(s, "", <<>>)

\* create_args_for_simulator() as _start_simulated_drone() calls it: model
\* and use_console take their defaults, rc_input_port is None; index,
\* param_file, home, heading and uarts are given.
CreateArgsForSimulator(use_console, index, drone, uarts) ==
    IF index < 0
    THEN [raised |-> TRUE, args |-> <<>>]
    ELSE [raised |-> FALSE,
          args |-> <<Lit("-M"), Lit("quad"), Lit("--disable-fgview")>>
                   \o <<Lit("-I"), Arg("", "", Str(index))>>
                   \o (IF use_console THEN <<Lit("-C")>> ELSE <<>>)
                   \o <<Lit("--defaults"), Arg("default.param", "", DroneId(drone))>>
                   \o uarts
                   \o <<Lit("--home"), Lit("lat,lon,amsl,heading")>>
                   \o <<Lit("--speedup"), Lit("1")>>]

\* The uarts dictionary built by _start_simulated_drone(), rendered.
Uarts(multicast_address, tcp_port) ==
    <<Arg("--uartA=udpclient:", "127.0.0.1:14550", <<>>),
      IF multicast_address # ""
      THEN Arg("--uartC=mcast:", multicast_address, <<>>)
      ELSE Arg("--uartC=udpclient:", "127.0.0.1:14555", <<>>),
      IF tcp_port # 0
      THEN Arg("--uartD=tcp:", "", Str(tcp_port))
      ELSE Arg("--uartD=udpclient:", "127.0.0.1:14552", <<>>)>>

\* "-C" in args
HasConsoleFlag(args) == \E j \in 1..Len(args) : args[j] = Lit("-C")

\* start_simulator(): the keyword arguments handed to runner.start().
StartSimulator(executable, name, use_console, index, drone, uarts) ==
    LET made == CreateArgsForSimulator(use_console, index, drone, uarts)
        args == <<Lit(executable)>> \o made.args
    IN [raised |-> made.raised,
        launch |-> [submitted |-> TRUE, console |-> use_console, args |-> args,
                    name |-> name,
                    stream_stdout |-> ~HasConsoleFlag(args),
                    use_stdin |-> HasConsoleFlag(args)]]

\* Variant of InstanceOf: the drone's index is passed on unchanged.
InstanceIsIndex(index) == index

\* index=index - 1 in the call of start_simulator().
InstanceOf(index) == index - 1

\* await start_simulator(..., runner=self._runner, name=str(index), ...):
\* self._runner is read now; the process is submitted to that runner.
\* use_console is not passed and keeps its default.
DroneStartSimulator(c) ==
    /\ call[c].pc = "start"
    /\ ~ScopeCancelled(c)
    /\ LET i == call[c].index
           s == StartSimulator(config.executable, Str(i), FALSE, InstanceOf(i), i,
                               Uarts(config.multicast_address, call[c].tcp_port))
       IN IF s.raised
          THEN /\ call' = Finish(c, "ValueError")
               /\ UNCHANGED sup
          ELSE IF runner = 0
          THEN /\ call' = Finish(c, "AttributeError")
               /\ UNCHANGED sup
          ELSE /\ sup' = [sup EXCEPT ![runner].procs = @ \cup {i}]
               /\ call' = [Finish(c, "ok") EXCEPT ![c].launch = s.launch]
    /\ UNCHANGED <<config, dir_given, nursery, runner, swarm_dir, index_generator, use,
                   cancelled, disk, drones>>

----------------------------------------------------------------------------
Next ==
    \/ \E a \in Activations, dir_ok \in BOOLEAN : UseCall(a, dir_ok)
    \/ \E a \in Activations, dir_ok \in BOOLEAN : UseYield(a, dir_ok)
    \/ \E a \in Activations : UseFinally(a)
    \/ \E a \in Activations : UseExit(a)
    \/ RequestStop
    \/ \E c \in Calls, scope \in {0} \cup Activations : StartSimulatedDrone(c, scope)
    \/ \E c \in Calls : DroneCancelled(c)
    \/ \E c \in Calls : DroneMkdir(c)
    \/ \E c \in Calls : DroneOpenFile(c)
    \/ \E c \in Calls, readable \in BOOLEAN : DroneWriteSources(c, readable)
    \/ \E c \in Calls : DroneWriteComputed(c)
    \/ \E c \in Calls : DroneMkFsDir(c)
    \/ \E c \in Calls : DroneStartSimulator(c)

Spec == Init /\ [][Next]_vars

\* No activation other than a is between its call of use() and its return.
InTurn(a) == \A b \in Activations \ {a} : use[b].pc \in {"idle", "done"}

\* The steps of a swarm whose activations do not overlap.
NextInTurn ==
    \/ \E a \in Activations, dir_ok \in BOOLEAN : InTurn(a) /\ UseCall(a, dir_ok)
    \/ \E a \in Activations, dir_ok \in BOOLEAN : UseYield(a, dir_ok)
    \/ \E a \in Activations : UseFinally(a)
    \/ \E a \in Activations : UseExit(a)
    \/ RequestStop
    \/ \E c \in Calls, scope \in {0} \cup Activations : StartSimulatedDrone(c, scope)
    \/ \E c \in Calls : DroneCancelled(c)
    \/ \E c \in Calls : DroneMkdir(c)
    \/ \E c \in Calls : DroneOpenFile(c)
    \/ \E c \in Calls, readable \in BOOLEAN : DroneWriteSources(c, readable)
    \/ \E c \in Calls : DroneWriteComputed(c)
    \/ \E c \in Calls : DroneMkFsDir(c)
    \/ \E c \in Calls : DroneStartSimulator(c)

SpecInTurn == InitAnyConfiguration /\ [][NextInTurn]_vars

----------------------------------------------------------------------------
\* Properties

\* An activation is Active while the caller's block runs with its handle.
Active(a) == use[a].pc = "body"
SwarmActive == \E a \in Activations : Active(a)
Deactivated(a) == use[a].pc = "done" /\ use[a].handle

\* Call c starts in this step.
Starts(c) == call[c].pc = "idle" /\ call'[c].pc # "idle"
\* Call c is handed its index in this step.
Allocates(c) == call[c].index = 0 /\ call'[c].index # 0
AllocatedIndices == {call[c].index : c \in Calls} \ {0}
Submitted == UNION {sup[a].procs : a \in Activations}

\* C1: drone indices start at 1, and every index handed out by add_drone is
\* strictly greater than every index handed out before it, so none is
\* handed out twice, whatever became of the earlier calls.
C1_IndicesStrictlyIncrease ==
    [][\A c \in Calls :
          Allocates(c) =>
             /\ call'[c].index >= 1
             /\ AllocatedIndices = {} => call'[c].index = 1
             /\ \A i \in AllocatedIndices : call'[c].index > i]_vars

\* A call that was cancelled or failed after its index was allocated, and a
\* later call with a greater index.
C1_Witness ==
    \E c, d \in Calls :
        /\ call[c].result \in {"Cancelled", "ConfigError"}
        /\ call[c].index # 0
        /\ call[d].index > call[c].index

\* C2: once stop() has been called on the active swarm, every add_drone call
\* that follows fails with the state error (the failed assertion) and
\* submits no process.
C2_AddDroneAfterStopFails ==
    [][\A c \in Calls :
          (Starts(c) /\ runner # 0 /\ sup[runner].stop_requested) =>
             /\ call'[c].pc = "done"
             /\ call'[c].result = "AssertionError"]_vars

\* C3: an add_drone call made while no activation is Active fails with the
\* state error (the failed assertion), allocates nothing and starts no
\* process.
C3_AddDroneWhileInertFails ==
    [][\A c \in Calls :
          (Starts(c) /\ ~SwarmActive) =>
             /\ call'[c].pc = "done"
             /\ call'[c].result = "AssertionError"
             /\ call'[c].index = 0
             /\ sup' = sup]_vars

\* The only activation so far has been deactivated and a call made through
\* its handle has failed with the assertion.
C3_Witness ==
    /\ Deactivated(1)
    /\ use[2].pc = "idle"
    /\ \E c \in Calls : call[c].result = "AssertionError"

\* Call c leaves the loop over the parameter sources with an error in this
\* step.
ComposeFails(c) == call[c].pc = "sources" /\ call'[c].result = "ConfigError"

\* C4: when composing a drone's parameter file fails, the error ends that
\* add_drone call, no process is ever submitted for that drone, and the
\* swarm is left as it was: the fields, the activations, the cancel scopes
\* and the supervisors are untouched.
C4_ComposeFailureIsLocal ==
    /\ [](\A c \in Calls : call[c].result = "ConfigError" =>
            /\ call[c].pc = "done"
            /\ call[c].index \notin Submitted)
    /\ [][\A c \in Calls :
            ComposeFails(c) =>
               UNCHANGED <<nursery, runner, swarm_dir, use, cancelled, sup>>]_vars

\* Within one activation, a drone whose composition failed and a later
\* drone that was started.
C4_Witness ==
    /\ Active(1)
    /\ use[2].pc = "idle"
    /\ \E c, d \in Calls :
          /\ call[c].result = "ConfigError"
          /\ call[d].result = "ok"
          /\ call[d].index > call[c].index
          /\ call[d].index \in sup[1].procs

\* C5: every activation that is torn down releases its process runner
\* before its working directory: in the order of the exits the runner comes
\* before the directory, and a directory is never removed while the runner
\* of its activation is running.
C5_RunnerReleasedBeforeDirectory ==
    \A a \in Activations :
        /\ Pos(use[a].exited, "dir") # 0 /\ Pos(use[a].entered, "runner") # 0
              => /\ Pos(use[a].exited, "runner") # 0
                 /\ Pos(use[a].exited, "runner") < Pos(use[a].exited, "dir")
        /\ sup[a].state = "running" => disk[TmpPath(a)] # "removed"

\* Two activations torn down, one after stop() cancelled its scope and one
\* without, each with its runner released and its directory removed.
C5_Witness ==
    \E a, b \in Activations :
        /\ Deactivated(a) /\ Deactivated(b)
        /\ cancelled[a] /\ ~cancelled[b]
        /\ \A x \in {a, b} : /\ sup[x].state = "released"
                              /\ disk[TmpPath(x)] = "removed"
                              /\ use[x].exited = <<"runner", "dir", "nursery">>

\* Every activation has ended and every add_drone call has returned.
FullyDeactivated ==
    /\ \E a \in Activations : Deactivated(a)
    /\ \A a \in Activations : use[a].pc \in {"idle", "done"}
    /\ \A c \in Calls : ~InFlight(c)

\* C6: after full deactivation (and with every add_drone call returned) a
\* working directory created by the orchestrator does not exist, and a
\* directory supplied by the caller exists and was never removed.
C6_TemporaryDirectoryGone ==
    FullyDeactivated =>
        /\ \A a \in Activations : disk[TmpPath(a)] # "present"
        /\ dir_given => disk[GivenPath] = "present"

\* C7: stop() never raises, whatever the lifecycle state it is called in,
\* and a second stop() right after the first leaves the runners and the
\* cancel scopes as the first call left them.
C7_StopIdempotent ==
    HandleExists =>
        LET once == StopEffect(runner, nursery, sup, cancelled)
            twice == StopEffect(runner, nursery, once.sup, once.cancelled)
        IN /\ ~once.raised
           /\ ~twice.raised
           /\ twice.sup = once.sup
           /\ twice.cancelled = once.cancelled

\* stop() has acted on an activation that has since been deactivated, and
\* on the activation that is Active now.
C7_Witness ==
    /\ Deactivated(1) /\ sup[1].stop_requested /\ cancelled[1]
    /\ Active(2) /\ runner = 2 /\ nursery = 2
    /\ sup[2].stop_requested /\ cancelled[2]

\* C8: while one activation is Active no second activation is Active, and
\* the swarm's scope, runner and working directory are the ones of the
\* Active activation: no second use() has replaced or cleared them.
C8_NoConcurrentActivation ==
    \A a \in Activations :
        Active(a) =>
            /\ \A b \in Activations \ {a} : ~Active(b)
            /\ nursery = a
            /\ runner = a
            /\ swarm_dir = WorkingDirectory(dir_given, a)

\* C9: a use() called after an activation of the swarm has ended never
\* makes the swarm Active.
C9_NoReactivation ==
    \A a \in Activations : Active(a) => ~use[a].reuse

\* Activation a could not create its working directory.
DirectoryFailed(a) == use[a].pc = "failing" \/ (use[a].pc = "done" /\ ~use[a].handle)

\* C10: an activation whose working directory cannot be created yields no
\* session handle, never starts its process runner, never binds it to the
\* swarm (add_drone stays invalid as far as this activation goes) and
\* leaves no temporary directory.
C10_FailedActivationStaysInert ==
    \A a \in Activations :
        DirectoryFailed(a) =>
            /\ ~use[a].handle
            /\ sup[a].state = "none"
            /\ runner # a
            /\ swarm_dir # TmpPath(a)
            /\ disk[TmpPath(a)] = "absent"

\* An activation that failed on its working directory has returned, and an
\* add_drone call made through an older handle has failed since.
C10_Witness ==
    /\ use[2].pc = "done" /\ ~use[2].handle /\ use[2].entered = <<"nursery">>
    /\ Deactivated(1)
    /\ call[1].result = "ok"
    /\ call[2].result = "AssertionError"

\* The calls that were handed an index.
Allocated == {c \in Calls : call[c].index # 0}

\* C11: with a base TCP port configured, the drone with index i is assigned
\* port base + i - 1 (5760, 5761, 5762 for the indices 1, 2, 3 and base
\* 5760), and no two drones of the swarm are assigned the same port.
C11_PortFollowsIndex ==
    config.tcp_base_port # 0 =>
        /\ \A c \in Allocated :
              /\ call[c].tcp_port - config.tcp_base_port = call[c].index - 1
              /\ config.tcp_base_port = 5760 =>
                    /\ call[c].index = 1 => call[c].tcp_port = 5760
                    /\ call[c].index = 2 => call[c].tcp_port = 5761
                    /\ call[c].index = 3 => call[c].tcp_port = 5762
        /\ \A c, d \in Allocated : c # d => call[c].tcp_port # call[d].tcp_port

\* Two drones added one after the other on base port 5760, both started.
C11_Witness ==
    /\ config.tcp_base_port = 5760
    /\ call[1].index = 1 /\ call[1].tcp_port = 5760 /\ call[1].result = "ok"
    /\ call[2].index = 2 /\ call[2].tcp_port = 5761 /\ call[2].result = "ok"

\* The positions of the entries of the params list that are not None.
Supplied == {k \in 1..Len(config.params) : config.params[k] # "none"}

\* The lines of file f from position j on are exactly the given ones.
EndsWith(f, j, lines) ==
    /\ Len(f) = j - 1 + Len(lines)
    /\ \A m \in 1..Len(lines) : f[j - 1 + m] = lines[m]

\* C12: every completely written parameter file holds the caller's entries
\* in the order of the params list, then the SYSID_THISMAV line with the
\* drone's index, then the two SERIAL1 lines exactly when a multicast
\* address is configured, then the SERIAL2 line exactly when the drone has
\* a TCP port; no caller's entry comes after a computed field.
C12_ParameterFileOrder ==
    \A i \in Indices :
        drones[i].param = "complete" =>
            LET f == drones[i].content
                n == Cardinality(Supplied)
                sysid == <<[line |-> "SYSID_THISMAV", n |-> i]>>
                serial1 == <<[line |-> "SERIAL1_PROTOCOL", n |-> 2],
                             [line |-> "SERIAL1_OPTIONS", n |-> 1024]>>
                serial2 == <<[line |-> "SERIAL2_PROTOCOL", n |-> 2]>>
                mcast == config.multicast_address # ""
                port == config.tcp_base_port # 0
            IN /\ Len(f) > n
               /\ \A j \in 1..n : f[j].line = "source" /\ f[j].n \in Supplied
               /\ \A j, m \in 1..n : j < m => f[j].n < f[m].n
               /\ \A j \in (n + 1)..Len(f) : f[j].line # "source"
               /\ mcast /\ port => EndsWith(f, n + 1, sysid \o serial1 \o serial2)
               /\ mcast /\ ~port => EndsWith(f, n + 1, sysid \o serial1)
               /\ ~mcast /\ port => EndsWith(f, n + 1, sysid \o serial2)
               /\ ~mcast /\ ~port => EndsWith(f, n + 1, sysid)

\* The file of the second drone of a swarm with an embedded file and a
\* pair, a multicast address and a TCP base port.
C12_Witness ==
    /\ drones[2].param = "complete"
    /\ config.params = <<"embedded", "pair">>
    /\ drones[2].content = <<[line |-> "source", n |-> 1],
                             [line |-> "source", n |-> 2],
                             [line |-> "SYSID_THISMAV", n |-> 2],
                             [line |-> "SERIAL1_PROTOCOL", n |-> 2],
                             [line |-> "SERIAL1_OPTIONS", n |-> 1024],
                             [line |-> "SERIAL2_PROTOCOL", n |-> 2]>>
    /\ \E c \in Calls : call[c].index = 2 /\ call[c].result = "ok"

\* The calls that submitted a process to a runner.
Launched == {c \in Calls : call[c].launch.submitted}

\* C13: of every process submitted to a runner exactly one of use_stdin and
\* stream_stdout is true: use_stdin alone when console mode was requested,
\* stream_stdout alone when it was not.
C13_ConsoleOrStream ==
    \A c \in Launched :
        LET l == call[c].launch
        IN /\ l.use_stdin # l.stream_stdout
           /\ l.console => l.use_stdin /\ ~l.stream_stdout
           /\ ~l.console => ~l.use_stdin /\ l.stream_stdout

\* C14: when the scope covering an add_drone call is cancelled while the
\* call is in progress, then once the call has unwound the drone's
\* default.param either does not exist or is a complete parameter file.
C14_NoPartialFileAfterCancel ==
    \A c \in Calls :
        (call[c].result = "Cancelled" /\ call[c].index # 0) =>
            drones[call[c].index].param \in {"absent", "complete"}

\* C15: a stop() on an Active swarm first asks the process runner to stop
\* and then cancels the scope, never the other way round, and the request
\* reaches the runner of every activation that is running processes.
C15_StopSignalsThenCancels ==
    (HandleExists /\ SwarmActive) =>
        LET calls == StopCalls(runner, nursery)
            e == StopEffect(runner, nursery, sup, cancelled)
        IN /\ Len(calls) = 2
           /\ calls[1].op = "request_stop"
           /\ calls[2].op = "cancel"
           /\ \A a \in Activations :
                 (sup[a].state = "running" /\ sup[a].procs # {}) =>
                     e.sup[a].stop_requested

\* Call c hands its process to a runner in this step.
Submits(c) == ~call[c].launch.submitted /\ call'[c].launch.submitted

\* What call c has written is a whole parameter file: a line for every
\* caller's entry and the computed fields, SYSID_THISMAV among them.
WroteWholeFile(c) ==
    /\ Len(call[c].written) > Cardinality(Supplied)
    /\ \A j \in 1..Cardinality(Supplied) : call[c].written[j].line = "source"
    /\ call[c].written[Cardinality(Supplied) + 1] =
           [line |-> "SYSID_THISMAV", n |-> call[c].index]

\* C16: a call of add_drone hands its process to the runner only after it
\* was given its index and has written and closed the whole parameter
\* file, and no call in which an earlier step failed or was cancelled ever
\* hands a process to a runner.
C16_StartIsLastStep ==
    /\ [](\A c \in Calls :
            call[c].result \notin {"none", "ok"} =>
                /\ ~call[c].launch.submitted
                /\ call[c].index \notin Submitted)
    /\ [][\A c \in Calls :
            Submits(c) =>
                /\ call[c].index # 0
                /\ call[c].result = "none"
                /\ call[c].fp = "closed"
                /\ WroteWholeFile(c)
                /\ call[c].index \in Submitted']_vars

\* One drone was started after its file was written; the next one failed
\* while its file was composed and was not started.
C16_Witness ==
    /\ call[1].launch.submitted /\ call[1].result = "ok"
    /\ drones[1].param = "complete"
    /\ 1 \in Submitted
    /\ call[2].index = 2 /\ call[2].result = "ConfigError"
    /\ 2 \notin Submitted

\* C17 as stated: a call that has written the first line of the parameter
\* file has created both the drone's directory and its fs directory
\* before, and no call fails because a directory exists already.
C17_BothDirectoriesBeforeWriting ==
    \A c \in Calls :
        /\ call[c].written # <<>> => {"dir", "fs"} \subseteq call[c].made
        /\ call[c].result # "FileExistsError"

\* C17 as amended: the drone's directory is created before the first line
\* of the parameter file is written; the fs directory is created after the
\* file was written and closed and before the process is handed to the
\* runner; creating either of them when it exists already is not an error.
C17_DirectoryBeforeWritingFsBeforeStart ==
    /\ [](\A c \in Calls :
            /\ call[c].fp # "unopened" /\ InFlight(c) => "dir" \in call[c].made
            /\ call[c].written # <<>> => "dir" \in call[c].made
            /\ "fs" \in call[c].made => call[c].fp = "closed" /\ WroteWholeFile(c)
            /\ call[c].result # "FileExistsError")
    /\ [][\A c \in Calls :
            Submits(c) => {"dir", "fs"} \subseteq call[c].made]_vars

\* In a directory that holds the tree of an earlier swarm, a drone was
\* added and started: both of its directories existed before the call
\* created them.
C17_Witness ==
    /\ dir_given
    /\ call[1].index = 1 /\ call[1].result = "ok"
    /\ drones[1].dir /\ drones[1].fs /\ drones[1].param = "complete"
    /\ Len(drones[1].content) > 1
    /\ call[2].pc = "idle"
    /\ drones[2].dir /\ drones[2].fs

\* C18: an embedded resource is held by a call only while the call copies
\* that entry, and no call that has ended, by returning, by an error or by
\* cancellation, holds one.
C18_EmbeddedResourceReleased ==
    \A c \in Calls :
        /\ ~InFlight(c) => ~call[c].held
        /\ call[c].held => /\ call[c].pc = "sources"
                           /\ config.params[call[c].k] = "embedded"

\* One call was cancelled and another failed while each was copying the
\* embedded file, the first entry of the list: their files are empty.
C18_Witness ==
    /\ config.params[1] = "embedded"
    /\ call[1].result = "Cancelled" /\ ~call[1].held
    /\ drones[1].param = "partial" /\ drones[1].content = <<>>
    /\ call[2].result = "ConfigError" /\ ~call[2].held
    /\ call[2].index = 2
    /\ drones[2].param = "partial" /\ drones[2].content = <<>>

\* One of the three fields is reset to None in this step.
ClearsAField ==
    \/ nursery # 0 /\ nursery' = 0
    \/ runner # 0 /\ runner' = 0
    \/ swarm_dir # NonePath /\ swarm_dir' = NonePath

\* The runner of activation a is released, or its temporary directory is
\* removed, in this step.
Releases(a) ==
    \/ sup[a].state = "running" /\ sup'[a].state = "released"
    \/ disk[TmpPath(a)] = "present" /\ disk'[TmpPath(a)] = "removed"

\* C19: as long as activations do not overlap, a set _runner comes with a
\* set _swarm_dir and a set _nursery, so the second assertion of add_drone
\* passes whenever the first does; the three fields are reset in one step,
\* and they are reset when a runner is released or a temporary directory
\* is removed.
C19_RunnerImpliesDirectoryAndScope ==
    /\ [](runner # 0 => swarm_dir # NonePath /\ nursery # 0)
    /\ [][ClearsAField => nursery' = 0 /\ runner' = 0 /\ swarm_dir' = NonePath]_vars
    /\ [][\A a \in Activations :
            Releases(a) => nursery = 0 /\ runner = 0 /\ swarm_dir = NonePath]_vars

\* The second of two activations in turn has left its block: the fields
\* are reset while its runner is still running and its directory exists.
C19_Witness ==
    /\ Deactivated(1)
    /\ use[2].pc = "exiting"
    /\ sup[2].state = "running" /\ sup[2].procs # {}
    /\ disk[WorkingDirectory(dir_given, 2)] = "present"
    /\ nursery = 0 /\ runner = 0 /\ swarm_dir = NonePath

\* The number a sequence of decimal digits stands for.
RECURSIVE Val(_)
Val(d) == IF d = <<>> THEN 0
          ELSE 10 * Val(SubSeq(d, 1, Len(d) - 1)) + d[Len(d)]

HasLine(f, name) == \E j \in 1..Len(f) : f[j].line = name

\* C20: when add_drone hands a drone's process to the runner, the file it
\* has written and the arguments agree: the SERIAL2_PROTOCOL line is there
\* exactly when UART D is tcp:<base port + index - 1>, the two SERIAL1
\* lines are there exactly when UART C is mcast:<multicast address>, the
\* process is named by the index, and -I is followed by index - 1, which
\* is not negative.
C20_FileAndArgumentsAgree ==
    [][\A c \in Calls :
          Submits(c) =>
             LET f == call[c].written
                 i == call[c].index
                 l == call'[c].launch
                 args == l.args
                 tcp == \E j \in 1..Len(args) :
                           /\ args[j].s = "--uartD=tcp:"
                           /\ Val(args[j].n) = config.tcp_base_port + i - 1
                 mcast == \E j \in 1..Len(args) :
                             /\ args[j].s = "--uartC=mcast:"
                             /\ args[j].v = config.multicast_address
                             /\ args[j].v # ""
             IN /\ HasLine(f, "SERIAL2_PROTOCOL") <=> tcp
                /\ HasLine(f, "SERIAL1_PROTOCOL") <=> mcast
                /\ HasLine(f, "SERIAL1_OPTIONS") <=> mcast
                /\ Val(l.name) = i
                /\ i - 1 >= 0
                /\ \E j \in 1..(Len(args) - 1) :
                      args[j] = Lit("-I") /\ Val(args[j + 1].n) = i - 1]_vars

\* The second drone of a swarm with a multicast address and base port 5760
\* was started as process "2" with -I 1, UART C on the multicast address
\* and UART D on tcp:5761, and its file holds the three serial lines.
C20_Witness ==
    \E c \in Launched :
        LET args == call[c].launch.args
        IN /\ call[c].index = 2
           /\ call[c].launch.name = <<2>>
           /\ args[5] = Lit("-I") /\ args[6].n = <<1>>
           /\ \E j \in 1..Len(args) : args[j] = Arg("--uartD=tcp:", "", <<5, 7, 6, 1>>)
           /\ \E j \in 1..Len(args) :
                 args[j] = Arg("--uartC=mcast:", "239.255.67.77:14555", <<>>)
           /\ drones[2].param = "complete"
           /\ HasLine(drones[2].content, "SERIAL1_PROTOCOL")
           /\ HasLine(drones[2].content, "SERIAL1_OPTIONS")
           /\ HasLine(drones[2].content, "SERIAL2_PROTOCOL")

====
